---------------------------- MODULE Spec2Model ----------------------------
(***************************************************************************)
(* A model of src/app.py: the PPTGenerator class, which asks a text        *)
(* generation service for a JSON outline, optionally asks it for an image  *)
(* search phrase per slide, fetches a photo, and assembles a deck.         *)
(*                                                                         *)
(* Text is modelled as a sequence of tokens.  Every token is a piece of    *)
(* real text: one character (a backquote, "[", "]", ",", " ", "1"), the    *)
(* word "json", or the complete text of one JSON value (an object or a     *)
(* string).  The text a sequence stands for is the concatenation of its    *)
(* tokens.                                                                 *)
(***************************************************************************)
EXTENDS Integers, Sequences, FiniteSets, TLC

(***************************************************************************)
(* Bounds of the exploration.                                              *)
(***************************************************************************)
\* longest response text (in tokens) fed to the outline parser on its own
MaxLen == 4
\* longest outline returned to a build (records)
MaxSlides == 2
\* calls of generate_presentation on the one PPTGenerator instance
MaxBuilds == 2

(***************************************************************************)
(* Python values.                                                          *)
(***************************************************************************)
\* Python's None
None == "<None>"
\* a key that is absent from a dict (dict.get then yields its default)
Missing == "<missing>"
\* JSON null, which json.loads turns into None inside a record
Null == "<null>"

(***************************************************************************)
(* str operations on token sequences.                                      *)
(***************************************************************************)
\* the backquote character U+0060 (the lexer of this language cannot hold it
\* in a string, so the token is spelled out)
Backtick == "backquote"
Space == " "
\* the separator of three backquotes
Fence == <<Backtick, Backtick, Backtick>>
\* the separator of three backquotes and the word json
FenceJson == <<Backtick, Backtick, Backtick, "json">>

\* s[k : k+len(pat)] == pat
MatchAt(s, pat, k) ==
    /\ k >= 1
    /\ k + Len(pat) - 1 <= Len(s)
    /\ \A j \in 1..Len(pat) : s[k + j - 1] = pat[j]

\* str.find, 1-based; 0 when pat does not occur
Find(s, pat) ==
    LET hits == {k \in 1..Len(s) : MatchAt(s, pat, k)}
    IN  IF hits = {} THEN 0 ELSE CHOOSE k \in hits : \A h \in hits : k <= h

\* pat in s
Contains(s, pat) == Find(s, pat) # 0

\* s.split(pat)[0]: the text before the first occurrence of pat, or all of s
SplitFirst(s, pat) ==
    IF Contains(s, pat) THEN SubSeq(s, 1, Find(s, pat) - 1) ELSE s

\* s.split(pat)[1]: the text between the first and the second occurrence of
\* pat (to the end when there is no second).  Only called when pat in s.
SplitSecond(s, pat) ==
    SplitFirst(SubSeq(s, Find(s, pat) + Len(pat), Len(s)), pat)

RECURSIVE LStrip(_)
LStrip(s) ==
    IF s # <<>> /\ Head(s) = Space THEN LStrip(Tail(s)) ELSE s

RECURSIVE RStrip(_)
RStrip(s) ==
    IF s # <<>> /\ s[Len(s)] = Space THEN RStrip(SubSeq(s, 1, Len(s) - 1)) ELSE s

\* str.strip()
Strip(s) == RStrip(LStrip(s))

\* str.startswith on an opening bracket
StartsWithBracket(s) == s # <<>> /\ s[1] = "["

\* str.endswith on a closing bracket
EndsWithBracket(s) == s # <<>> /\ s[Len(s)] = "]"

(***************************************************************************)
(* JSON texts.                                                             *)
(***************************************************************************)
\* The JSON texts of single values, each one token.
RecTitle == "{\"title\":\"T\",\"slide_type\":\"title\",\"content\":\"x\"}"
RecContent == "{\"title\":\"T\",\"slide_type\":\"content\",\"content\":\"x\"}"
RecImage == "{\"title\":\"T\",\"slide_type\":\"image\",\"content\":\"x\"}"
RecConclusion == "{\"title\":\"T\",\"slide_type\":\"conclusion\",\"content\":\"x\"}"
RecSummary == "{\"title\":\"T\",\"slide_type\":\"summary\",\"content\":\"x\"}"
RecMixedCase == "{\"title\":\"T\",\"slide_type\":\"Image\",\"content\":\"x\"}"
RecEmpty == "{}"
RecNullType == "{\"title\":\"T\",\"slide_type\":null,\"content\":\"x\"}"
RecNullContent == "{\"title\":\"T\",\"slide_type\":\"content\",\"content\":null}"
ObjA == "{\"a\":1}"
StrS == "\"s\""
\* the text of one JSON value that is fixed only when it is read (see
\* ElementPool)
Elem == "<element>"

\* tokens that are the text of a JSON object
ObjectTokens ==
    {RecTitle, RecContent, RecImage, RecConclusion, RecSummary, RecMixedCase,
     RecEmpty, RecNullType, RecNullContent, ObjA}

\* tokens that are the text of one complete JSON value
ValueTokens == ObjectTokens \cup {StrS, Elem}

\* the first index >= i of s that holds no whitespace (Len(s)+1 when none)
RECURSIVE SkipWs(_, _)
SkipWs(s, i) ==
    IF i <= Len(s) /\ s[i] = Space THEN SkipWs(s, i + 1) ELSE i

\* the first index >= i of s that holds no digit
RECURSIVE SkipDigits(_, _)
SkipDigits(s, i) ==
    IF i <= Len(s) /\ s[i] = "1" THEN SkipDigits(s, i + 1) ELSE i

\* The JSON decoder's scan of one value starting at s[i]: the index after the
\* value, or 0 when the text is not JSON there.
RECURSIVE ScanValue(_, _)
RECURSIVE ScanElements(_, _)
ScanValue(s, i) ==
    IF i < 1 \/ i > Len(s) THEN 0
    ELSE IF s[i] = "1" THEN SkipDigits(s, i)
    ELSE IF s[i] \in ValueTokens THEN i + 1
    ELSE IF s[i] = "["
         THEN LET j == SkipWs(s, i + 1)
              IN  IF j <= Len(s) /\ s[j] = "]" THEN j + 1 ELSE ScanElements(s, j)
    ELSE 0

\* the rest of an array from its element at s[i] on: value, then "," or "]"
ScanElements(s, i) ==
    LET e == ScanValue(s, i)
        k == SkipWs(s, e)
    IN  IF e = 0 \/ k > Len(s) THEN 0
        ELSE IF s[k] = "]" THEN k + 1
        ELSE IF s[k] = "," THEN ScanElements(s, SkipWs(s, k + 1))
        ELSE 0

\* whether json.loads(s) succeeds: one value, whitespace around it, nothing else
IsJson(s) ==
    LET e == ScanValue(s, SkipWs(s, 1))
    IN  e # 0 /\ SkipWs(s, e) = Len(s) + 1

\* The value json.loads(s) returns, written as its text without whitespace:
\* two texts decode to equal Python values exactly when these are equal.
JsonValue(s) == SelectSeq(s, LAMBDA t : t # Space)

\* json.loads: the decoded value, or JSONDecodeError
json_loads(s) ==
    IF IsJson(s) THEN [raised |-> "", value |-> JsonValue(s)]
    ELSE [raised |-> "JSONDecodeError", value |-> <<>>]

(***************************************************************************)
(* PPTGenerator.generate_content_outline (src/app.py 22-55).               *)
(* A response of the text-generation service is [error, text]: error says  *)
(* that the request (or reading response.text) raised.                     *)
(***************************************************************************)
\* lines 38-42: the trimmed response text with its code fence removed
FenceStripped(text) ==
    LET content == Strip(text)
    IN  IF Contains(content, FenceJson)
        THEN Strip(SplitFirst(SplitSecond(content, FenceJson), Fence))
        ELSE IF Contains(content, Fence)
        THEN Strip(SplitSecond(content, Fence))
        ELSE content

\* a boundary check that rejects only a text wrong at both ends ("and" where
\* line 45 has "or"); C5 does not hold of it
BoundaryCheckBothEnds(content) ==
    ~StartsWithBracket(content) /\ ~EndsWithBracket(content)

\* line 45: the array-boundary check fails
BoundaryCheckFails(content) ==
    ~StartsWithBracket(content) \/ ~EndsWithBracket(content)

\* lines 37-49, the body of the try: what it returns or the exception it
\* raises.  isNone: returns None; value: the decoded value otherwise;
\* parsed: json.loads was called.
OutlineTry(response) ==
    IF response.error
    THEN [exc |-> "Exception", isNone |-> FALSE, value |-> <<>>, parsed |-> FALSE]
    ELSE LET content == FenceStripped(response.text)
         IN  IF BoundaryCheckFails(content)
             THEN [exc |-> "", isNone |-> TRUE, value |-> <<>>, parsed |-> FALSE]
             ELSE LET j == json_loads(content)
                  IN  [exc |-> j.raised, isNone |-> FALSE, value |-> j.value,
                       parsed |-> TRUE]

\* lines 50-55: the exception classes the two handlers catch (JSONDecodeError,
\* then Exception, of which every exception of the try body is a subclass)
OutlineCaught == {"JSONDecodeError", "Exception"}

\* generate_content_outline: exc is the exception that leaves the method
generate_content_outline(response) ==
    LET t == OutlineTry(response)
    IN  IF t.exc # "" /\ t.exc \in OutlineCaught
        THEN [exc |-> "", isNone |-> TRUE, value |-> <<>>, parsed |-> t.parsed]
        ELSE t

\* The elements of a decoded JSON array (its text without whitespace), from
\* token i on: split at the commas outside nested brackets.
RECURSIVE SplitTop(_, _, _, _)
SplitTop(v, i, depth, cur) ==
    IF i > Len(v) THEN <<>>
    ELSE IF v[i] = "]" /\ depth = 0
         THEN IF cur = <<>> THEN <<>> ELSE <<cur>>
    ELSE IF v[i] = "," /\ depth = 0
         THEN <<cur>> \o SplitTop(v, i + 1, 0, <<>>)
    ELSE SplitTop(v, i + 1,
                  IF v[i] = "[" THEN depth + 1
                  ELSE IF v[i] = "]" THEN depth - 1 ELSE depth,
                  Append(cur, v[i]))

\* the list a decoded JSON array is: the texts of its elements, in order
Elements(v) == IF StartsWithBracket(v) THEN SplitTop(v, 2, 0, <<>>) ELSE <<>>

(***************************************************************************)
(* Slide records: what the code reads from an element of the outline.      *)
(***************************************************************************)
\* the dict a JSON object text decodes to, as its three keys of interest
Fields(tok) ==
    CASE tok = RecTitle ->
           [title |-> "T", slide_type |-> "title", content |-> "x"]
      [] tok = RecContent ->
           [title |-> "T", slide_type |-> "content", content |-> "x"]
      [] tok = RecImage ->
           [title |-> "T", slide_type |-> "image", content |-> "x"]
      [] tok = RecConclusion ->
           [title |-> "T", slide_type |-> "conclusion", content |-> "x"]
      [] tok = RecSummary ->
           [title |-> "T", slide_type |-> "summary", content |-> "x"]
      [] tok = RecMixedCase ->
           [title |-> "T", slide_type |-> "Image", content |-> "x"]
      [] tok = RecNullType ->
           [title |-> "T", slide_type |-> Null, content |-> "x"]
      [] tok = RecNullContent ->
           [title |-> "T", slide_type |-> "content", content |-> Null]
      [] OTHER ->
           [title |-> Missing, slide_type |-> Missing, content |-> Missing]

\* isinstance(element, dict): the element is the text of one JSON object
IsDict(e) == Len(e) = 1 /\ e[1] \in ObjectTokens

\* dict.get(key, default)
Get(e, key, default) ==
    IF Fields(e[1])[key] = Missing THEN default ELSE Fields(e[1])[key]

\* whether dict[key] raises KeyError
HasKey(e, key) == Fields(e[1])[key] # Missing

\* str.lower()
Lower(str) == IF str = "Image" THEN "image" ELSE str

(***************************************************************************)
(* PPTGenerator.generate_image_description (src/app.py 57-69).             *)
(* ok: the text-generation request and reading its text succeeded.         *)
(***************************************************************************)
\* line 69
FallbackQuery == "abstract technology background"
\* a phrase the service answers with
ServicePhrase == "phrase from the service"

\* lines 64-66, the body of the try
DescriptionTry(ok) ==
    IF ok THEN [exc |-> "", value |-> ServicePhrase]
    ELSE [exc |-> "Exception", value |-> ""]

\* a handler that catches nothing; C9 does not hold of it
DescriptionCaughtNothing == {}

\* lines 67-69: except Exception
DescriptionCaught == {"Exception"}

generate_image_description(ok) ==
    LET t == DescriptionTry(ok)
    IN  IF t.exc \in DescriptionCaught
        THEN [exc |-> "", value |-> FallbackQuery]
        ELSE t

(***************************************************************************)
(* PPTGenerator.download_image (src/app.py 71-101).                        *)
(* The environment of one call is                                          *)
(*   key        PEXELS_API_KEY is set                                      *)
(*   search     "ok" | "error": the search request (get, raise_for_status, *)
(*              json)                                                      *)
(*   hasPhotos  the search response has a "photos" key                     *)
(*   photos     its list: entries "ok" (has src.original) or "nosrc"       *)
(*   fetch      "ok" | "error": the image request                          *)
(***************************************************************************)
\* line 71: the default of save_path
TempImage == "temp_img.jpg"

\* a test for the missing key only, which lets an empty list through to
\* photos[0]; C8 does not hold of it
PhotosKeyMissing(env) == ~env.hasPhotos

\* line 88: not data.get("photos")
NoPhotos(env) == ~env.hasPhotos \/ env.photos = <<>>

\* lines 74-98, the body of the try.  indexed: photos[0] was evaluated;
\* wrote: the bytes were written to save_path; http: requests made.
DownloadTry(env) ==
    IF ~env.key
    THEN [exc |-> "", path |-> None, indexed |-> FALSE, wrote |-> FALSE, http |-> 0]
    ELSE IF env.search = "error"
    THEN [exc |-> "Exception", path |-> None, indexed |-> FALSE, wrote |-> FALSE, http |-> 1]
    ELSE IF NoPhotos(env)
    THEN [exc |-> "", path |-> None, indexed |-> FALSE, wrote |-> FALSE, http |-> 1]
    ELSE IF ~env.hasPhotos
    THEN [exc |-> "TypeError", path |-> None, indexed |-> TRUE, wrote |-> FALSE, http |-> 1]
    ELSE IF env.photos = <<>>
    THEN [exc |-> "IndexError", path |-> None, indexed |-> TRUE, wrote |-> FALSE, http |-> 1]
    ELSE IF env.photos[1] = "nosrc"
    THEN [exc |-> "KeyError", path |-> None, indexed |-> TRUE, wrote |-> FALSE, http |-> 1]
    ELSE IF env.fetch = "error"
    THEN [exc |-> "Exception", path |-> None, indexed |-> TRUE, wrote |-> FALSE, http |-> 2]
    ELSE [exc |-> "", path |-> TempImage, indexed |-> TRUE, wrote |-> TRUE, http |-> 2]

\* lines 99-101: except Exception (every exception above is a subclass)
DownloadCaught == {"Exception", "TypeError", "IndexError", "KeyError"}

download_image(env) ==
    LET t == DownloadTry(env)
    IN  IF t.exc \in DownloadCaught
        THEN [t EXCEPT !.exc = "", !.path = None]
        ELSE t

\* the environments explored (per_page=1: at most one photo)
DownloadEnvs ==
    {e \in [key : BOOLEAN, search : {"ok", "error"}, hasPhotos : BOOLEAN,
            photos : {<<>>, <<"ok">>, <<"nosrc">>}, fetch : {"ok", "error"}] :
        ~e.hasPhotos => e.photos = <<>>}

(***************************************************************************)
(* The state.                                                              *)
(***************************************************************************)
VARIABLES
    pc,            \* position in generate_presentation; "idle" between calls
    build,         \* calls of generate_presentation made on the instance
    presentation,  \* self.presentation.slides: [renderer, build, index]
    outline,       \* the local outline: the element texts of the list
    i,             \* 1-based index of the outline element being handled
    status,        \* how the latest call stands or ended
    exc,           \* the exception that ended the latest call, if one did
    ret,           \* what the latest call returned
    written,       \* what the latest call wrote to output_file
    files,         \* temporary image files that exist
    img_desc,      \* the local image_desc / img_query
    img_path,      \* the local img_path
    cur,           \* the handling of the current element (observation)
    outres,        \* what generate_content_outline returned to the call
    outlineReqs,   \* outline requests made by the latest call
    nQueries,      \* image-description requests made by the latest call
    nFetches,      \* download_image calls made by the latest call
    dl,            \* the latest download_image call (observation)
    response,      \* a response text given to generate_content_outline alone
    fencedres,     \* its result for the same text inside a json code fence
    dlenv          \* an environment given to download_image alone

vars == <<pc, build, presentation, outline, i, status, exc, ret, written,
          files, img_desc, img_path, cur, outres, outlineReqs, nQueries,
          nFetches, dl, response, fencedres, dlenv>>

\* line 184: the default of output_file
OutputFile == "presentation.pptx"

\* output_file has not been written by the call
NotWritten == [saved |-> FALSE, slides |-> <<>>]
NoResult == [exc |-> "", isNone |-> TRUE, value |-> <<>>, parsed |-> FALSE]
NoResponse == [error |-> FALSE, text |-> <<>>]
NoDownload ==
    [called |-> FALSE, query |-> "", before |-> {}, exc |-> "", path |-> None,
     indexed |-> FALSE, wrote |-> FALSE, http |-> 0]
NoEnv ==
    [key |-> FALSE, search |-> "ok", hasPhotos |-> FALSE, photos |-> <<>>,
     fetch |-> "ok"]
NoSlide ==
    [index |-> 0, slide_type |-> "", renderer |-> "", include_image |-> FALSE,
     queries |-> 0, fetches |-> 0, queryFailed |-> FALSE, done |-> FALSE]

\* the record of a download_image(query) call made in environment env with
\* the temporary files in before
Downloaded(query, env, before) ==
    LET r == download_image(env)
    IN  [called |-> TRUE, query |-> query, before |-> before, exc |-> r.exc,
         path |-> r.path, indexed |-> r.indexed, wrote |-> r.wrote,
         http |-> r.http]

\* the temporary files after that call
FilesAfter(d) == IF d.wrote THEN d.before \cup {TempImage} ELSE d.before

\* __init__ (lines 12-20): a new generator holds an empty Presentation, and
\* no call has been made on it
Constructed ==
    /\ build = 0
    /\ presentation = <<>>
    /\ outline = <<>>
    /\ i = 0
    /\ status = "NotCalled"
    /\ exc = ""
    /\ ret = None
    /\ written = NotWritten
    /\ img_path = None
    /\ cur = NoSlide
    /\ outres = NoResult
    /\ outlineReqs = 0
    /\ nQueries = 0
    /\ nFetches = 0
    /\ dl = NoDownload
    /\ fencedres = NoResult

Init ==
    /\ Constructed
    /\ pc = "idle"
    /\ files = {}
    /\ img_desc = ""
    /\ response = NoResponse
    /\ dlenv = NoEnv

(***************************************************************************)
(* PPTGenerator.generate_presentation (src/app.py 184-215), step by step.  *)
(***************************************************************************)
\* The responses the outline request of a build may get: a failed request,
\* the text of a list of at most MaxSlides elements (bare or inside a json
\* code fence), a JSON object, and a text that is not JSON.  The response
\* fixes how many elements the list has.  What an element is, is drawn from
\* ElementPool when the code reads it: outline[0] is read once (line 192) and
\* every later element once (line 195), so this explores the same builds as
\* drawing the whole list with the response.
ElementPool ==
    {<<RecTitle>>, <<RecContent>>, <<RecImage>>, <<RecConclusion>>,
     <<RecSummary>>, <<RecMixedCase>>, <<RecEmpty>>, <<RecNullType>>,
     <<RecNullContent>>, <<StrS>>}

RECURSIVE Joined(_)
Joined(elems) ==
    IF elems = <<>> THEN <<>>
    ELSE IF Len(elems) = 1 THEN <<elems[1]>>
    ELSE <<elems[1], ",">> \o Joined(Tail(elems))

ArrayText(elems) == <<"[">> \o Joined(elems) \o <<"]">>

InFence(text) == FenceJson \o text \o Fence

OutlineTexts == {ArrayText([k \in 1..n |-> Elem]) : n \in 0..MaxSlides}

BuildResponses ==
    {[error |-> TRUE, text |-> <<>>]}
    \cup {[error |-> FALSE, text |-> t] :
            t \in OutlineTexts \cup {InFence(x) : x \in OutlineTexts}
                  \cup {<<ObjA>>, <<"[", ",", "]">>}}

\* a guard that lets an empty list through; C3 does not hold of it
OutlineIsNone(r) == r.isNone

\* line 187: not outline or len(outline) < 1
OutlineRejected(r) == r.isNone \/ Len(Elements(r.value)) < 1

\* an exception leaves generate_presentation
Raised(e) ==
    /\ status' = "Raised"
    /\ exc' = e
    /\ pc' = "idle"
    /\ ret' = None

Slide(renderer, index) ==
    [renderer |-> renderer, build |-> build, index |-> index]

\* the slide_type an element declares, as written in the record
Declared(e) == IF IsDict(e) THEN Fields(e[1]).slide_type ELSE Missing

Handling(e, index, renderer, include_image, done) ==
    [index |-> index, slide_type |-> Declared(e), renderer |-> renderer,
     include_image |-> include_image, queries |-> 0, fetches |-> 0,
     queryFailed |-> FALSE, done |-> done]

\* lines 184-185: generate_presentation is called on the instance
Call ==
    /\ pc = "idle"
    /\ build < MaxBuilds
    /\ build' = build + 1
    /\ pc' = "outline"
    /\ status' = "Running"
    /\ exc' = ""
    /\ ret' = None
    /\ written' = NotWritten
    /\ outline' = <<>>
    /\ i' = 0
    /\ outres' = NoResult
    /\ outlineReqs' = 0
    /\ nQueries' = 0
    /\ nFetches' = 0
    /\ img_desc' = ""
    /\ img_path' = None
    /\ cur' = NoSlide
    /\ dl' = NoDownload
    /\ UNCHANGED <<presentation, files, response, fencedres, dlenv>>

\* lines 186-189: the outline request and the check of its result
GenerateOutline(resp) ==
    /\ pc = "outline"
    /\ outlineReqs' = outlineReqs + 1
    /\ LET r == generate_content_outline(resp)
       IN  /\ outres' = r
           /\ IF r.exc # ""
              THEN /\ Raised(r.exc)
                   /\ UNCHANGED <<outline, i>>
              ELSE IF OutlineRejected(r)
              THEN /\ status' = "OutlineFailed"
                   /\ pc' = "idle"
                   /\ UNCHANGED <<outline, i, exc, ret>>
              ELSE /\ pc' = "title"
                   /\ outline' = Elements(r.value)
                   /\ i' = 1
                   /\ UNCHANGED <<status, exc, ret>>
    /\ UNCHANGED <<build, presentation, written, files, img_desc, img_path, cur,
                   nQueries, nFetches, dl, response, fencedres, dlenv>>

\* lines 191-192: outline[0]['title'], outline[0].get('content', ''), and
\* create_title_slide (103-121)
CreateTitleSlide(e) ==
    /\ pc = "title"
    /\ IF Len(outline) < 1
           THEN /\ Raised("IndexError")
                /\ UNCHANGED <<presentation, i, cur>>
           ELSE IF ~IsDict(e)
           THEN /\ Raised("TypeError")
                /\ cur' = Handling(e, 1, "", FALSE, TRUE)
                /\ UNCHANGED <<presentation, i>>
           ELSE IF ~HasKey(e, "title")
           THEN /\ Raised("KeyError")
                /\ cur' = Handling(e, 1, "", FALSE, TRUE)
                /\ UNCHANGED <<presentation, i>>
           ELSE /\ presentation' = Append(presentation, Slide("title", 1))
                /\ cur' = Handling(e, 1, "title", FALSE, TRUE)
                /\ pc' = "loop"
                /\ i' = 2
                /\ UNCHANGED <<status, exc, ret>>
    /\ UNCHANGED <<build, outline, written, files, img_desc, img_path, outres,
                   outlineReqs, nQueries, nFetches, dl, response, fencedres,
                   dlenv>>

\* lines 196-198 raise: slide_info is no dict (it has no get), or its
\* slide_type is null (None has no lower)
ReadsRaise(e) == ~IsDict(e) \/ Get(e, "slide_type", "content") = Null

\* line 196
SlideType(e) == Lower(Get(e, "slide_type", "content"))

\* lines 202-211: the renderer chosen for a slide_type, and its include_image
Renderer(slide_type) ==
    IF slide_type = "title" THEN "title"
    ELSE IF slide_type = "image" THEN "image"
    ELSE "content"

IncludeImage(slide_type) ==
    slide_type \notin {"title", "image", "conclusion"}

\* lines 195-211 for one element, up to the first request it makes
HandleElement(e) ==
    /\ pc = "loop"
    /\ i <= Len(outline)
    /\ IF ReadsRaise(e)
           THEN /\ Raised("AttributeError")
                /\ cur' = Handling(e, i, "", FALSE, TRUE)
                /\ UNCHANGED <<presentation, i>>
           ELSE LET st == SlideType(e)
                    content == Get(e, "content", "")
                IN  IF Renderer(st) = "title"
                    THEN \* create_title_slide (103-121)
                         /\ presentation' = Append(presentation, Slide("title", i))
                         /\ cur' = Handling(e, i, "title", FALSE, TRUE)
                         /\ i' = i + 1
                         /\ UNCHANGED <<pc, status, exc, ret>>
                    ELSE IF Renderer(st) = "image"
                    THEN \* line 205 comes next
                         /\ cur' = Handling(e, i, "image", FALSE, FALSE)
                         /\ pc' = "query"
                         /\ UNCHANGED <<presentation, i, status, exc, ret>>
                    ELSE \* create_content_slide (123-141): the slide is added,
                         \* then content.split raises on None
                         /\ presentation' = Append(presentation, Slide("content", i))
                         /\ IF content = Null
                            THEN /\ Raised("AttributeError")
                                 /\ cur' = Handling(e, i, "content", IncludeImage(st), TRUE)
                                 /\ UNCHANGED i
                            ELSE IF IncludeImage(st)
                            THEN /\ cur' = Handling(e, i, "content", TRUE, FALSE)
                                 /\ pc' = "query"
                                 /\ UNCHANGED <<i, status, exc, ret>>
                            ELSE /\ cur' = Handling(e, i, "content", FALSE, TRUE)
                                 /\ i' = i + 1
                                 /\ UNCHANGED <<pc, status, exc, ret>>
    /\ UNCHANGED <<build, outline, written, files, img_desc, img_path, outres,
                   outlineReqs, nQueries, nFetches, dl, response, fencedres,
                   dlenv>>

\* line 144 (content renderer) or 205 (image slide): the image query
ImageDescription(ok) ==
    /\ pc = "query"
    /\ nQueries' = nQueries + 1
    /\ LET r == generate_image_description(ok)
       IN  IF r.exc # ""
           THEN /\ Raised(r.exc)
                /\ cur' = [cur EXCEPT !.queries = @ + 1, !.queryFailed = ~ok,
                                      !.done = TRUE]
                /\ UNCHANGED img_desc
           ELSE /\ img_desc' = r.value
                /\ cur' = [cur EXCEPT !.queries = @ + 1, !.queryFailed = ~ok]
                /\ pc' = "download"
                /\ UNCHANGED <<status, exc, ret>>
    /\ UNCHANGED <<build, presentation, outline, i, written, files, img_path,
                   outres, outlineReqs, nFetches, dl, response, fencedres,
                   dlenv>>

\* line 145 (content renderer), or create_image_slide up to line 175: the
\* image slide is added (157-173), then the photo is fetched
DownloadImage(env) ==
    /\ pc = "download"
    /\ presentation' = IF cur.renderer = "image"
                       THEN Append(presentation, Slide("image", i))
                       ELSE presentation
    /\ nFetches' = nFetches + 1
    /\ LET d == Downloaded(img_desc, env, files)
       IN  /\ dl' = d
           /\ files' = FilesAfter(d)
           /\ img_path' = d.path
           /\ IF d.exc # ""
              THEN /\ Raised(d.exc)
                   /\ cur' = [cur EXCEPT !.fetches = @ + 1, !.done = TRUE]
                   /\ UNCHANGED i
              ELSE IF d.path = None
              THEN \* if img_path: is false; the renderer returns
                   /\ cur' = [cur EXCEPT !.fetches = @ + 1, !.done = TRUE]
                   /\ pc' = "loop"
                   /\ i' = i + 1
                   /\ UNCHANGED <<status, exc, ret>>
              ELSE /\ cur' = [cur EXCEPT !.fetches = @ + 1]
                   /\ pc' = "place"
                   /\ UNCHANGED <<i, status, exc, ret>>
    /\ UNCHANGED <<build, outline, written, img_desc, outres, outlineReqs,
                   nQueries, response, fencedres, dlenv>>

\* lines 146-153 / 176-182: add_picture, then os.remove(img_path).  ok: the
\* presentation library accepts the downloaded bytes as a picture.
PlacePicture(ok) ==
    /\ pc = "place"
    /\ IF ok
       THEN /\ files' = files \ {img_path}
            /\ cur' = [cur EXCEPT !.done = TRUE]
            /\ pc' = "loop"
            /\ i' = i + 1
            /\ UNCHANGED <<status, exc, ret>>
       ELSE /\ Raised("PictureError")
            /\ cur' = [cur EXCEPT !.done = TRUE]
            /\ UNCHANGED <<files, i>>
    /\ UNCHANGED <<build, presentation, outline, written, img_desc, img_path,
                   outres, outlineReqs, nQueries, nFetches, dl, response,
                   fencedres, dlenv>>

\* lines 213-215
SavePresentation ==
    /\ pc = "loop"
    /\ i > Len(outline)
    /\ written' = [saved |-> TRUE, slides |-> presentation]
    /\ status' = "Saved"
    /\ ret' = OutputFile
    /\ pc' = "idle"
    /\ UNCHANGED <<build, presentation, outline, i, exc, files, img_desc,
                   img_path, cur, outres, outlineReqs, nQueries, nFetches, dl,
                   response, fencedres, dlenv>>

Next ==
    \/ Call
    \/ \E resp \in BuildResponses : GenerateOutline(resp)
    \/ \E e \in ElementPool : CreateTitleSlide(e)
    \/ \E e \in ElementPool : HandleElement(e)
    \/ \E ok \in BOOLEAN : ImageDescription(ok)
    \/ \E env \in DownloadEnvs : DownloadImage(env)
    \/ \E ok \in BOOLEAN : PlacePicture(ok)
    \/ SavePresentation

Spec == Init /\ [][Next]_vars

(***************************************************************************)
(* generate_content_outline on its own: every response text of at most     *)
(* MaxLen tokens, and a failed request.  The method is applied to the text *)
(* as it is and to the same text inside a json code fence.                 *)
(***************************************************************************)
Alphabet == {Backtick, "json", "[", "]", ",", Space, "1", ObjA}

Texts == UNION {[1..n -> Alphabet] : n \in 0..MaxLen}

ParseResponses ==
    {[error |-> TRUE, text |-> <<>>]} \cup {[error |-> FALSE, text |-> t] : t \in Texts}

InitParse ==
    /\ Constructed
    /\ pc = "parse"
    /\ files = {}
    /\ img_desc = ""
    /\ response \in ParseResponses
    /\ dlenv = NoEnv

ParseResponse ==
    /\ pc = "parse"
    /\ pc' = "parsed"
    /\ outres' = generate_content_outline(response)
    /\ fencedres' = generate_content_outline([response EXCEPT !.text = InFence(@)])
    /\ UNCHANGED <<build, presentation, outline, i, status, exc, ret, written,
                   files, img_desc, img_path, cur, outlineReqs, nQueries,
                   nFetches, dl, response, dlenv>>

SpecOutline == InitParse /\ [][ParseResponse]_vars

(***************************************************************************)
(* download_image on its own: every environment, with and without a file   *)
(* already at save_path, for both kinds of query.                          *)
(***************************************************************************)
InitFetch ==
    /\ Constructed
    /\ pc = "fetch"
    /\ files \in {{}, {TempImage}}
    /\ img_desc \in {ServicePhrase, FallbackQuery}
    /\ response = NoResponse
    /\ dlenv \in DownloadEnvs

FetchImage ==
    /\ pc = "fetch"
    /\ pc' = "fetched"
    /\ dl' = Downloaded(img_desc, dlenv, files)
    /\ files' = FilesAfter(Downloaded(img_desc, dlenv, files))
    /\ UNCHANGED <<build, presentation, outline, i, status, exc, ret, written,
                   img_desc, img_path, cur, outres, outlineReqs, nQueries,
                   nFetches, response, fencedres, dlenv>>

SpecDownload == InitFetch /\ [][FetchImage]_vars

(***************************************************************************)
(* Properties.                                                             *)
(***************************************************************************)
\* the slides of the deck that the latest call emitted
Emitted == {k \in DOMAIN presentation : presentation[k].build = build}

\* the outline step of the latest call has been taken
OutlineStepTaken == outlineReqs >= 1

\* C1: a completed generate_presentation leaves exactly N slides in the deck
\* for an outline of N >= 1 records, in outline order, the first of them
\* produced by the title renderer.  (Stated of the deck, as the claim states
\* it; it fails when the instance has run an earlier build, see C4.)
C1_DeckIsOutline ==
    status = "Saved" =>
        /\ Len(presentation) = Len(outline)
        /\ \A k \in DOMAIN presentation :
               presentation[k].build = build /\ presentation[k].index = k
        /\ presentation[1].renderer = "title"

\* C2: once the outline step has returned a non-empty list, no exception
\* ends generate_presentation, whatever the elements of the list are and
\* whatever the image query, the photo fetch and the placement do.
C2_NeverRaises ==
    (OutlineStepTaken /\ Len(outline) >= 1) => status # "Raised"

\* C3: when the outline step fails or yields an empty list, the call ends in
\* OutlineFailed after exactly one outline request: it emits no slide, makes
\* no image query and no photo fetch, saves no file and returns no path.
C3_OutlineFailureAborts ==
    (OutlineStepTaken /\ (outres.isNone \/ Elements(outres.value) = <<>>)) =>
        /\ status = "OutlineFailed"
        /\ pc = "idle"
        /\ outlineReqs = 1
        /\ Emitted = {}
        /\ nQueries = 0
        /\ nFetches = 0
        /\ ~written.saved
        /\ ret = None

\* C3 witnesses: a second call on the instance whose outline response was
\* not JSON, made after a build that left slides in the deck
C3_Witness ==
    /\ status = "OutlineFailed"
    /\ build = 2
    /\ outres.parsed
    /\ Len(presentation) >= 1

\* C4: the deck a build saves holds only slides of that build's outline,
\* also when the instance has run an earlier build.
C4_SavedDeckIsOwn ==
    status = "Saved" =>
        /\ written.saved
        /\ \A k \in DOMAIN written.slides : written.slides[k].build = build

\* C5: a response whose fence-stripped trimmed text does not start with "["
\* or does not end with "]" makes generate_content_outline return None
\* without raising and without calling json.loads.
C5_BoundaryRejects ==
    (pc = "parsed" /\ ~response.error) =>
        LET content == FenceStripped(response.text)
        IN  (~StartsWithBracket(content) \/ ~EndsWithBracket(content)) =>
                /\ outres.isNone
                /\ outres.exc = ""
                /\ ~outres.parsed

\* C5 witness: the response {"a":1}, which is JSON, was rejected unparsed
C5_Witness ==
    /\ pc = "parsed"
    /\ response.text = <<ObjA>>
    /\ IsJson(response.text)
    /\ outres.isNone
    /\ ~outres.parsed

\* C6: for any outline text X, generate_content_outline returns for X inside
\* a json code fence what it returns for X itself, and stripping fences
\* from a text that holds no fence leaves it unchanged.
C6_FenceTransparent ==
    (pc = "parsed" /\ ~response.error) =>
        /\ fencedres.isNone = outres.isNone
        /\ fencedres.value = outres.value
        /\ ~Contains(response.text, Fence) =>
               FenceStripped(response.text) = Strip(response.text)

\* C7: for every element after the first, 'title' goes to the title
\* renderer, 'image' to the image renderer, 'conclusion' to the content
\* renderer without an image (no image query, no photo fetch), and every
\* other value, also a missing one, to the content renderer with an image
\* (exactly one image query and one photo fetch).
C7_Dispatch ==
    (cur.index >= 2 /\ cur.done) =>
        IF cur.slide_type = "title" THEN cur.renderer = "title"
        ELSE IF cur.slide_type = "image" THEN cur.renderer = "image"
        ELSE IF cur.slide_type = "conclusion"
             THEN /\ cur.renderer = "content"
                  /\ ~cur.include_image
                  /\ cur.queries = 0
                  /\ cur.fetches = 0
        ELSE /\ cur.renderer = "content"
             /\ cur.include_image
             /\ cur.queries = 1
             /\ cur.fetches = 1

\* C8: download_image returns None, without raising and without writing the
\* file, when the key is absent, an HTTP call errors, or the photos list is
\* missing or empty (photos[0] is then never evaluated); it returns the path
\* only after the bytes were written to it.
C8_DownloadFailsSoftly ==
    pc = "fetched" =>
        /\ dl.exc = ""
        /\ (\/ ~dlenv.key
            \/ dlenv.search = "error"
            \/ dlenv.fetch = "error"
            \/ ~dlenv.hasPhotos
            \/ dlenv.photos = <<>>) =>
               (dl.path = None /\ ~dl.wrote /\ files = dl.before)
        /\ (dlenv.key /\ dlenv.search = "ok"
                /\ (~dlenv.hasPhotos \/ dlenv.photos = <<>>)) => ~dl.indexed
        /\ (~dlenv.key \/ dlenv.search = "error") => ~dl.indexed
        /\ dl.path # None => (dl.path = TempImage /\ dl.wrote /\ TempImage \in files)

\* C8 witness: the key is set and the search succeeded with an empty list
C8_Witness ==
    /\ pc = "fetched"
    /\ dlenv.key
    /\ dlenv.search = "ok"
    /\ dlenv.hasPhotos
    /\ dlenv.photos = <<>>
    /\ dl.path = None
    /\ ~dl.indexed

\* C9: generate_image_description never raises: when its request fails it
\* returns the fallback phrase, the photo fetch that follows is made with
\* that phrase, and a failed image query leaves the number of slides the
\* build emits what it is otherwise.
C9_QueryFailureDegrades ==
    /\ cur.queryFailed =>
           /\ img_desc = FallbackQuery
           /\ status = "Raised" => cur.fetches = 1
           /\ pc = "download" \/ cur.fetches = 1
           /\ cur.fetches = 1 => (dl.called /\ dl.query = FallbackQuery)
    /\ cur.queries = 1 =>
           Cardinality(Emitted) =
               IF cur.renderer = "image" /\ cur.fetches = 0
               THEN cur.index - 1 ELSE cur.index
    /\ (status = "Saved" /\ cur.queries = 1) =>
           Cardinality(Emitted) = Len(outline)

\* C9 witness: a build whose last image query failed ended in Saved
C9_Witness ==
    /\ status = "Saved"
    /\ cur.queryFailed
    /\ dl.query = FallbackQuery

\* C10: the temporary image file is there between a successful download and
\* its placement and stays after a placement that failed; at most one
\* temporary file exists at any time, and none remains when a build ends in
\* Saved.
C10_TempFileScoped ==
    /\ Cardinality(files) <= 1
    /\ pc = "place" => files = {TempImage}
    /\ (status = "Raised" /\ exc = "PictureError") => files = {TempImage}
    /\ status = "Saved" => files = {}

=============================================================================
